---- MODULE Spec2Model ----
(***************************************************************************)
(* Pub Till: the pricing engine (bestLineTotalWithDeals), the catalog      *)
(* resolver (resolveUnitsAndPrices), the data they work on, and the till   *)
(* around them: basket, cash, admin panel and catalog edits.               *)
(*                                                                         *)
(* The repository holds two copies of the application: src/src/App.jsx and *)
(* src/unnamed/part_000.  They differ in the filter of                     *)
(* bestLineTotalWithDeals; `build` says which copy runs.                   *)
(***************************************************************************)
EXTENDS Integers, Sequences, FiniteSets, TLC

VARIABLES
    build,   \* which copy of the application runs
    state,   \* useState(state): [bands, products, pinEnabled, pin]
    pc,      \* position of the engine call under study
    args,    \* arguments of the engine call under study
    ret,     \* value returned by the engine call under study
    basket,      \* useState(basket): sequence of lines
    lastAddKey,  \* useState(lastAddKey): None or Some(key)
    cashPence,   \* useState(cashPence)
    adminOpen,   \* useState(adminOpen)
    pinEntry,    \* useState(pinEntry)
    authed,      \* useState(authed)
    rendered,    \* None, or Some of the render that handlers still close over
    last         \* the handler that ran last, with its arguments

engineVars == <<pc, args, ret>>
tillVars == <<basket, lastAddKey, cashPence, adminOpen, pinEntry, authed, rendered, last>>
vars == <<build, state, pc, args, ret,
          basket, lastAddKey, cashPence, adminOpen, pinEntry, authed, rendered, last>>

----------------------------------------------------------------------------
(* Bounds of the model *)

MaxDeals == 2        \* longest deals list
MaxQty == 5          \* largest line quantity
MaxTrigger == 3      \* largest trigger quantity of a deal
MaxBands == 2        \* longest list of bands

UnitPrices == {-1, 0, 3}      \* unit prices tried (pence)
BundlePrices == {0, 2, 4}     \* bundle prices tried (pence)

Builds == {"App.jsx", "part_000"}

----------------------------------------------------------------------------
(* JavaScript values *)

\* An optional value: undefined, or a value.
None == <<>>
Some(v) == <<v>>

\* A JS value found in a field of a deal that came from JSON or from code.
Num(n) == [t |-> "number", v |-> n]
NaN == [t |-> "NaN", v |-> 0]
Infinity == [t |-> "Infinity", v |-> 0]
NumStr(n) == [t |-> "numstr", v |-> n]      \* a string of digits, "2"
TextStr == [t |-> "text", v |-> 0]          \* a string that is no number, "abc"
Null == [t |-> "null", v |-> 0]
Undefined == [t |-> "undefined", v |-> 0]

\* ToNumber, the coercion the operators >, >=, /, % and * apply.
ToNumber(x) ==
    CASE x.t = "number" -> x
      [] x.t = "Infinity" -> x
      [] x.t = "numstr" -> Num(x.v)
      [] x.t = "null" -> Num(0)
      [] OTHER -> NaN

NumberIsFinite(x) == x.t = "number"

\* x > 0 and x >= 0 on JS values
JsGt0(x) == LET n == ToNumber(x) IN n.t = "Infinity" \/ (n.t = "number" /\ n.v > 0)
JsGe0(x) == LET n == ToNumber(x) IN n.t = "Infinity" \/ (n.t = "number" /\ n.v >= 0)

\* a comparison that lets a tie replace the best
JsLess_OrEqual(x, b) == x.t = "number" /\ x.v <= b

\* total < best, best a finite number
JsLess(x, b) == x.t = "number" /\ x.v < b

----------------------------------------------------------------------------
(* Strings, as sequences of characters *)

Pound == "GBP"      \* the character U+00A3
Times == "x"        \* the character U+00D7

DigitChar(d) == <<"0", "1", "2", "3", "4", "5", "6", "7", "8", "9">>[d + 1]

RECURSIVE Digits(_)
Digits(n) == IF n < 10 THEN <<DigitChar(n)>> ELSE Digits(n \div 10) \o <<DigitChar(n % 10)>>

\* en-GB grouping of the integer part: 1234567 -> "1,234,567"
RECURSIVE Grouped(_)
Grouped(n) ==
    IF n < 1000 THEN Digits(n)
    ELSE Grouped(n \div 1000) \o <<",">> \o
         <<DigitChar((n % 1000) \div 100), DigitChar((n % 100) \div 10), DigitChar(n % 10)>>

\* `${x}` of a JS value
TemplateOf(x) ==
    CASE x.t = "number" -> IF x.v < 0 THEN <<"-">> \o Digits(-x.v) ELSE Digits(x.v)
      [] x.t = "numstr" -> Digits(x.v)
      [] x.t = "Infinity" -> <<"I", "n", "f", "i", "n", "i", "t", "y">>
      [] x.t = "NaN" -> <<"N", "a", "N">>
      [] x.t = "text" -> <<"a", "b", "c">>
      [] x.t = "null" -> <<"n", "u", "l", "l">>
      [] OTHER -> <<"u", "n", "d", "e", "f", "i", "n", "e", "d">>

\* formatPence(p) = GBP.format((p || 0) / 100), p a whole number of pence
formatPence(p) ==
    LET n == ToNumber(p)
        pence == IF n.t = "number" THEN n.v ELSE 0
        abs == IF pence < 0 THEN -pence ELSE pence
    IN  IF n.t = "Infinity" THEN <<Pound, "Infinity">>
        ELSE IF p.t = "text" THEN <<Pound, "N", "a", "N">>
        ELSE (IF pence < 0 THEN <<"-">> ELSE <<>>) \o <<Pound>> \o Grouped(abs \div 100)
             \o <<".", DigitChar((abs % 100) \div 10), DigitChar(abs % 10)>>

----------------------------------------------------------------------------
(* Deals *)

Deal(type, q, p) == [type |-> type, qty |-> q, pricePence |-> p]

\* a null entry of the deals array
NullDeal == [type |-> "null", qty |-> Undefined, pricePence |-> Undefined]

Truthy(d) == d # NullDeal

\* d.type, d.qty, d.pricePence raise a TypeError when d is null
CanRead(d) == d # NullDeal

\* the filter of src/src/App.jsx without its leading `d &&`
bundleFilterApp_NoNullGuard(d) ==
    IF ~CanRead(d) THEN "throw"
    ELSE IF /\ d.type = "bundle"
            /\ NumberIsFinite(d.qty) /\ JsGt0(d.qty)
            /\ NumberIsFinite(d.pricePence) /\ JsGe0(d.pricePence)
         THEN "keep" ELSE "drop"

\* The callback of deals.filter: "keep", "drop", or "throw" when it raises.
\* src/src/App.jsx
bundleFilterApp(d) ==
    IF ~Truthy(d) THEN "drop"
    ELSE IF ~CanRead(d) THEN "throw"
    ELSE IF /\ d.type = "bundle"
            /\ NumberIsFinite(d.qty) /\ JsGt0(d.qty)
            /\ NumberIsFinite(d.pricePence) /\ JsGe0(d.pricePence)
         THEN "keep" ELSE "drop"

\* src/unnamed/part_000
bundleFilterPart000(d) ==
    IF ~Truthy(d) THEN "drop"
    ELSE IF ~CanRead(d) THEN "throw"
    ELSE IF d.type = "bundle" /\ JsGt0(d.qty) /\ JsGe0(d.pricePence)
         THEN "keep" ELSE "drop"

bundleFilter(b, d) == IF b = "App.jsx" THEN bundleFilterApp(d) ELSE bundleFilterPart000(d)

\* Math.floor(qty / d.qty), for qty > 0 and d.qty > 0
bundlesOf(d, q) ==
    LET n == ToNumber(d.qty) IN IF n.t = "Infinity" THEN 0 ELSE q \div n.v

\* qty % d.qty, for qty > 0 and d.qty > 0
remainderOf(d, q) ==
    LET n == ToNumber(d.qty) IN IF n.t = "Infinity" THEN q ELSE q % n.v

\* a total that forgets the units left over after the bundles
totalOf_NoRemainder(d, u, q) ==
    LET p == ToNumber(d.pricePence)
    IN  IF p.t = "Infinity"
        THEN (IF bundlesOf(d, q) = 0 THEN NaN ELSE Infinity)
        ELSE Num(bundlesOf(d, q) * p.v)

\* bundles * d.pricePence + remainder * unitPricePence, a JS number
totalOf(d, u, q) ==
    LET p == ToNumber(d.pricePence)
    IN  IF p.t = "Infinity"
        THEN (IF bundlesOf(d, q) = 0 THEN NaN ELSE Infinity)
        ELSE Num(bundlesOf(d, q) * p.v + remainderOf(d, q) * u)

\* a description that prints the remainder in place of the bundle count
dealNoteOf_Remainder(d, q) ==
    TemplateOf(d.qty) \o <<" ", "f", "o", "r", " ">> \o formatPence(d.pricePence)
        \o <<" ", Times, " ">> \o Digits(remainderOf(d, q))

\* `${d.qty} for ${formatPence(d.pricePence)} x ${bundles}`
dealNoteOf(d, q) ==
    TemplateOf(d.qty) \o <<" ", "f", "o", "r", " ">> \o formatPence(d.pricePence)
        \o <<" ", Times, " ">> \o Digits(bundlesOf(d, q))

\* an iteration that takes every deal it meets, cheaper or not
scanStep_AlwaysReplace(best, d, u, q) ==
    [totalPence |-> totalOf(d, u, q).v,
     dealNote |-> IF bundlesOf(d, q) > 0 THEN Some(dealNoteOf(d, q)) ELSE None,
     threw |-> FALSE]

\* One iteration of the loop over bundleDeals.
scanStep(best, d, u, q) ==
    IF JsLess(totalOf(d, u, q), best.totalPence)
    THEN [totalPence |-> totalOf(d, u, q).v,
          dealNote |-> IF bundlesOf(d, q) > 0 THEN Some(dealNoteOf(d, q)) ELSE None,
          threw |-> FALSE]
    ELSE best

RECURSIVE scanDeals(_, _, _, _)
scanDeals(best, ds, u, q) ==
    IF ds = <<>> THEN best ELSE scanDeals(scanStep(best, Head(ds), u, q), Tail(ds), u, q)

\* the no-deal result
baseline(u, q) == [totalPence |-> u * q, dealNote |-> None, threw |-> FALSE]

\* an uncaught TypeError
Threw == [totalPence |-> 0, dealNote |-> None, threw |-> TRUE]

\* bestLineTotalWithDeals({ unitPricePence, qty, deals }) of build b;
\* deals is None (absent) or Some(list).
bestLineTotalWithDeals(b, unitPricePence, qty, deals) ==
    IF deals = None \/ Len(deals[1]) = 0 \/ qty <= 0
    THEN baseline(unitPricePence, qty)
    ELSE LET list == deals[1]
             bundleDeals == SelectSeq(list, LAMBDA d : bundleFilter(b, d) = "keep")
         IN  IF \E i \in 1..Len(list) : bundleFilter(b, list[i]) = "throw" THEN Threw
             ELSE IF Len(bundleDeals) = 0 THEN baseline(unitPricePence, qty)
             ELSE scanDeals(baseline(unitPricePence, qty), bundleDeals, unitPricePence, qty)

----------------------------------------------------------------------------
(* Inputs of the deal engine *)

WellFormedDeals == {Deal("bundle", Num(n), Num(p)) : n \in 1..MaxTrigger, p \in BundlePrices}

BadQty == {Num(-2), Num(0), NumStr(2), TextStr, Infinity}
BadPrice == {Num(-1), NumStr(2), TextStr, Null, Infinity}

MalformedDeals ==
    {NullDeal, Deal("percent", Num(2), Num(2))}
        \cup {Deal("bundle", x, Num(2)) : x \in BadQty}
        \cup {Deal("bundle", Num(2), y) : y \in BadPrice}

DealPool == WellFormedDeals \cup MalformedDeals

SeqsUpTo(S, n) == UNION {[1..k -> S] : k \in 0..n}

DealsArgs == {None} \cup {Some(l) : l \in SeqsUpTo(DealPool, MaxDeals)}

\* ret before the call has returned
NoRet == [fn |-> "none"]

\* the component state after construction (lines 103-115 of src/src/App.jsx)
TillInit ==
    /\ basket = <<>>
    /\ lastAddKey = None
    /\ cashPence = 0
    /\ adminOpen = FALSE
    /\ pinEntry = ""
    /\ authed = FALSE
    /\ rendered = None
    /\ last = [op |-> "none"]

DefaultCatalog == [bands |-> <<>>, products |-> <<>>, pinEnabled |-> FALSE, pin |-> "1234"]

InitDeals ==
    /\ build \in Builds
    /\ state = DefaultCatalog
    /\ pc = "ready"
    /\ \E u \in UnitPrices, q \in -1..MaxQty, ds \in DealsArgs :
          args = [fn |-> "bestLineTotalWithDeals", unitPricePence |-> u, qty |-> q, deals |-> ds]
    /\ ret = NoRet
    /\ TillInit

CallBestLineTotalWithDeals ==
    /\ pc = "ready"
    /\ args.fn = "bestLineTotalWithDeals"
    /\ ret' = bestLineTotalWithDeals(build, args.unitPricePence, args.qty, args.deals)
    /\ pc' = "returned"
    /\ UNCHANGED <<build, state, args>>
    /\ UNCHANGED tillVars

NextDeals == CallBestLineTotalWithDeals

SpecDeals == InitDeals /\ [][NextDeals]_vars

----------------------------------------------------------------------------
(* Vocabulary of the properties of the deal engine *)

Returned == pc = "returned" /\ args.fn = "bestLineTotalWithDeals"

\* the deals list handed to the call (empty when absent)
DealList == IF args.deals = None THEN <<>> ELSE args.deals[1]

\* a well-formed bundle: tag "bundle", trigger a finite number > 0,
\* price a finite number >= 0
WellFormed(d) ==
    /\ d # NullDeal
    /\ d.type = "bundle"
    /\ d.qty.t = "number" /\ d.qty.v > 0
    /\ d.pricePence.t = "number" /\ d.pricePence.v >= 0

AllWellFormed == \A i \in 1..Len(DealList) : WellFormed(DealList[i])

\* floor(q / n) * p + (q mod n) * u
SingleDealTotal(n, p, u, q) == (q \div n) * p + (q % n) * u

SetMin(S) == CHOOSE m \in S : \A x \in S : m <= x

\* totals of the well-formed deals of the list, each taken alone
WellFormedTotals ==
    {SingleDealTotal(DealList[i].qty.v, DealList[i].pricePence.v, args.unitPricePence, args.qty) :
        i \in {j \in 1..Len(DealList) : WellFormed(DealList[j])}}

\* C1: for unit price >= 0 and quantity >= 1 the returned total is the minimum
\* of the baseline and, over each well-formed bundle deal taken alone,
\* floor(q / d.qty) * d.pricePence + (q mod d.qty) * unitPrice.
C1_SingleDealMinimum ==
    (Returned /\ args.unitPricePence >= 0 /\ args.qty >= 1)
        => /\ ~ret.threw
           /\ ret.totalPence = SetMin({args.unitPricePence * args.qty} \cup WellFormedTotals)

\* cheapest way to cover exactly q units with bundles of any of the deals of
\* ds (a set of <<trigger, price>>) plus single units at price u
RECURSIVE MinCover(_, _, _)
MinCover(ds, u, q) ==
    IF q = 0 THEN 0
    ELSE SetMin({u + MinCover(ds, u, q - 1)}
                \cup {d[2] + MinCover(ds, u, q - d[1]) : d \in {e \in ds : e[1] <= q}})

DealPairs == {<<DealList[i].qty.v, DealList[i].pricePence.v>> : i \in 1..Len(DealList)}

\* C2 as claimed: for well-formed deals the returned total is the minimum over
\* every covering of the quantity by bundles of the declared deals (deals may
\* be mixed) plus single units.
C2_Original_MixedMinimum ==
    (Returned /\ args.unitPricePence >= 0 /\ args.qty >= 1 /\ AllWellFormed)
        => ret.totalPence <= MinCover(DealPairs, args.unitPricePence, args.qty)

\* C2 as amended: for well-formed deals the returned total is the minimum over
\* the coverings of the quantity that use bundles of ONE declared deal (any
\* number k of them, 0 <= k <= floor(q / d.qty)) plus single units: no such
\* covering costs less, and the returned total is the cost of one of them.
C2_SingleDealCoverMinimum ==
    (Returned /\ args.unitPricePence >= 0 /\ args.qty >= 1 /\ AllWellFormed)
        => LET u == args.unitPricePence
               q == args.qty
               Covers == {u * q} \cup
                   {k * d[2] + (q - k * d[1]) * u :
                       <<d, k>> \in {x \in DealPairs \X (0..q) : x[2] * x[1][1] <= q}}
           IN  /\ ret.totalPence \in Covers
               /\ \A c \in Covers : ret.totalPence <= c

C2_Witness_MixWouldBeCheaper ==
    /\ Returned /\ args.unitPricePence >= 0 /\ args.qty >= 1 /\ AllWellFormed
    /\ Len(DealList) = 2
    /\ ret.totalPence < args.unitPricePence * args.qty
    /\ MinCover(DealPairs, args.unitPricePence, args.qty) < ret.totalPence

\* C3: for every unit price, quantity and deals list the returned total is
\* at most the no-deal baseline unitPrice * quantity.
C3_AtMostBaseline ==
    Returned => ret.totalPence <= args.unitPricePence * args.qty

C3_Witness_BelowBaseline ==
    /\ Returned
    /\ Len(DealList) = 2
    /\ ret.totalPence < args.unitPricePence * args.qty

\* C4: with quantity <= 0, or deals absent or empty, or no well-formed bundle
\* in the list, the result is exactly unitPrice * quantity with dealNote null.
C4_BaselineWithoutDeals ==
    (Returned /\ (args.qty <= 0 \/ args.deals = None \/ Len(DealList) = 0
                  \/ \A i \in 1..Len(DealList) : ~WellFormed(DealList[i])))
        => ret = [totalPence |-> args.unitPricePence * args.qty, dealNote |-> None, threw |-> FALSE]

\* Reading a description back: "<trigger> for GBP<pounds>.<pence> x <count>"
DigitVal(c) == CHOOSE d \in 0..9 : DigitChar(d) = c

IsDigit(c) == \E d \in 0..9 : DigitChar(d) = c

RECURSIVE NatOf(_)
NatOf(cs) == IF cs = <<>> THEN 0 ELSE 10 * NatOf(SubSeq(cs, 1, Len(cs) - 1)) + DigitVal(cs[Len(cs)])

AllDigits(cs) == cs # <<>> /\ \A i \in 1..Len(cs) : IsDigit(cs[i])

\* the k-th field of s, fields separated by single spaces
FieldOf(s, k) ==
    LET sp == {i \in 1..Len(s) : s[i] = " "}
        cut(n) == IF n = 0 THEN 0
                  ELSE IF n > Cardinality(sp) THEN Len(s) + 1
                  ELSE CHOOSE i \in sp : Cardinality({j \in sp : j < i}) = n - 1
    IN  SubSeq(s, cut(k - 1) + 1, cut(k) - 1)

\* <<trigger, pricePence, count>> of a description, <<-1, -1, -1>> if it has
\* another shape
ParseNote(s) ==
    LET f1 == FieldOf(s, 1)
        f3 == FieldOf(s, 3)
        f5 == FieldOf(s, 5)
        money == SelectSeq(Tail(f3), LAMBDA c : c # ",")
        pounds == SubSeq(money, 1, Len(money) - 3)
        pence == SubSeq(money, Len(money) - 1, Len(money))
    IN  IF /\ Cardinality({i \in 1..Len(s) : s[i] = " "}) = 4
           /\ AllDigits(f1) /\ AllDigits(f5)
           /\ FieldOf(s, 2) = <<"f", "o", "r">> /\ FieldOf(s, 4) = <<Times>>
           /\ Len(f3) >= 5 /\ f3[1] = Pound
           /\ money[Len(money) - 2] = "." /\ AllDigits(pounds) /\ AllDigits(pence)
        THEN <<NatOf(f1), 100 * NatOf(pounds) + NatOf(pence), NatOf(f5)>>
        ELSE <<-1, -1, -1>>

\* C5: a candidate replaces the best only when strictly smaller.  For a list
\* of well-formed bundle deals: when several deals produce the returned
\* total, the description is that of the one declared first; and a result
\* equal to the no-deal baseline carries no description.
C5_FirstDealWinsTies ==
    (Returned /\ args.qty >= 1 /\ AllWellFormed)
        => LET u == args.unitPricePence
               q == args.qty
               T(i) == SingleDealTotal(DealList[i].qty.v, DealList[i].pricePence.v, u, q)
               Winners == {i \in 1..Len(DealList) : T(i) = ret.totalPence}
           IN  /\ ret.totalPence = u * q => ret.dealNote = None
               /\ ret.totalPence < u * q =>
                    /\ Winners # {}
                    /\ ret.dealNote # None
                    /\ LET d == DealList[SetMin(Winners)]
                       IN  ParseNote(ret.dealNote[1]) = <<d.qty.v, d.pricePence.v, q \div d.qty.v>>

C5_Witness_Tie ==
    /\ Returned /\ args.qty >= 1 /\ AllWellFormed /\ Len(DealList) = 2
    /\ DealList[1] # DealList[2]
    /\ ret.totalPence < args.unitPricePence * args.qty
    /\ \A i \in 1..2 :
          SingleDealTotal(DealList[i].qty.v, DealList[i].pricePence.v,
                          args.unitPricePence, args.qty) = ret.totalPence
    /\ ParseNote(ret.dealNote[1])[1] = DealList[1].qty.v

\* C6: a returned description names the trigger quantity, the bundle price
\* and the bundle count floor(q / trigger) > 0 of a deal of the list whose
\* candidate total is the returned total.
C6_NoteNamesWinningDeal ==
    (Returned /\ ret.dealNote # None)
        => \E i \in 1..Len(DealList) :
              LET d == DealList[i]
                  n == ToNumber(d.qty)
                  p == ToNumber(d.pricePence)
              IN  /\ d # NullDeal /\ d.type = "bundle"
                  /\ n.t = "number" /\ n.v > 0 /\ p.t = "number" /\ p.v >= 0
                  /\ args.qty \div n.v > 0
                  /\ ParseNote(ret.dealNote[1]) = <<n.v, p.v, args.qty \div n.v>>
                  /\ SingleDealTotal(n.v, p.v, args.unitPricePence, args.qty) = ret.totalPence

C6_Witness_NoteWithRemainder ==
    /\ Returned /\ ret.dealNote # None
    /\ Len(DealList) = 2
    /\ ParseNote(ret.dealNote[1])[3] = 2
    /\ args.qty % ParseNote(ret.dealNote[1])[1] = 1

RemoveAt(l, i) == SubSeq(l, 1, i - 1) \o SubSeq(l, i + 1, Len(l))

\* C7: an entry that is not a well-formed bundle has no influence: the call
\* returns what it returns for the list with that entry removed, and does
\* not raise.
C7_MalformedEntryIgnored ==
    Returned
        => /\ ~ret.threw
           /\ \A i \in 1..Len(DealList) :
                 ~WellFormed(DealList[i])
                    => ret = bestLineTotalWithDeals(build, args.unitPricePence, args.qty,
                                                    Some(RemoveAt(DealList, i)))

\* C8: the call never raises, and with unit price >= 0, quantity >= 0 and
\* every bundle price >= 0 the returned total is >= 0.
C8_NeverRaisesNonNegative ==
    Returned
        => /\ ~ret.threw
           /\ (/\ args.unitPricePence >= 0 /\ args.qty >= 0
               /\ \A i \in 1..Len(DealList) :
                     ~(DealList[i].pricePence.t = "number" /\ DealList[i].pricePence.v < 0))
                 => ret.totalPence >= 0

C8_Witness_NullEntryAndDeal ==
    /\ Returned /\ ~ret.threw
    /\ args.unitPricePence > 0 /\ args.qty > 0
    /\ Len(DealList) = 2 /\ DealList[1] = NullDeal
    /\ ret.dealNote # None /\ ret.totalPence >= 0

----------------------------------------------------------------------------
(* Catalog resolver *)

\* bandById.get(id): the Map built by state.bands.forEach((b) => map.set(b.id, b));
\* a later band with the same id replaces an earlier one.  id is None or Some(id).
bandById(bands, id) ==
    LET hits == {i \in 1..Len(bands) : id = Some(bands[i].id)}
    IN  IF hits = {} THEN None
        ELSE Some(bands[CHOOSE i \in hits : \A j \in hits : j <= i])

\* a resolver that prefers the band to the product's own pricing
resolveUnitsAndPrices_BandFirst(bands, product) ==
    LET band == bandById(bands, product.bandId)
    IN  IF band # None
        THEN [units |-> band[1].units, pricesPence |-> band[1].pricesPence]
        ELSE IF product.pricesPence # None /\ product.units # None
        THEN [units |-> product.units[1], pricesPence |-> product.pricesPence[1]]
        ELSE [units |-> <<"One">>, pricesPence |-> [u \in {"One"} |-> 0]]

resolveUnitsAndPrices_EmptyFallback(bands, product) ==
    IF product.pricesPence # None /\ product.units # None
    THEN [units |-> product.units[1], pricesPence |-> product.pricesPence[1]]
    ELSE LET band == bandById(bands, product.bandId)
         IN  IF band = None
             THEN [units |-> <<"One">>, pricesPence |-> [u \in {} |-> 0]]
             ELSE [units |-> band[1].units, pricesPence |-> band[1].pricesPence]

\* resolveUnitsAndPrices(product); product.units and product.pricesPence are
\* None (absent) or Some(value), and any present array or object is truthy.
resolveUnitsAndPrices(bands, product) ==
    IF product.pricesPence # None /\ product.units # None
    THEN [units |-> product.units[1], pricesPence |-> product.pricesPence[1]]
    ELSE LET band == bandById(bands, product.bandId)
         IN  IF band = None
             THEN [units |-> <<"One">>, pricesPence |-> [u \in {"One"} |-> 0]]
             ELSE [units |-> band[1].units, pricesPence |-> band[1].pricesPence]

----------------------------------------------------------------------------
(* Inputs of the resolver *)

EmptyPrices == [u \in {} |-> 0]
OnePrices == [u \in {"One"} |-> 70]
SpiritPrices(single, double) == [u \in {"Single", "Double"} |-> IF u = "Single" THEN single ELSE double]

BandIds == {"band-premium", "band-topshelf"}

BandPool ==
    {[id |-> i, units |-> <<"Single", "Double">>, pricesPence |-> pr] :
        i \in BandIds, pr \in {SpiritPrices(450, 850), SpiritPrices(550, 1050)}}

BandLists == SeqsUpTo(BandPool, MaxBands)

ProductPool ==
    {[id |-> "p-gin1", name |-> "Tanqueray", bandId |-> b, units |-> us, pricesPence |-> pr,
      deals |-> None] :
        b \in {None, Some("band-premium"), Some("band-topshelf"), Some("band-gone")},
        us \in {None, Some(<<>>), Some(<<"One">>), Some(<<"Single", "Double">>)},
        pr \in {None, Some(EmptyPrices), Some(OnePrices), Some(SpiritPrices(700, 1350))}}

InitResolve ==
    /\ build \in Builds
    /\ \E bs \in BandLists, p \in ProductPool :
          /\ state = [bands |-> bs, products |-> <<p>>, pinEnabled |-> FALSE, pin |-> "1234"]
          /\ args = [fn |-> "resolveUnitsAndPrices", product |-> p]
    /\ pc = "ready"
    /\ ret = NoRet
    /\ TillInit

CallResolveUnitsAndPrices ==
    /\ pc = "ready"
    /\ args.fn = "resolveUnitsAndPrices"
    /\ ret' = resolveUnitsAndPrices(state.bands, args.product)
    /\ pc' = "returned"
    /\ UNCHANGED <<build, state, args>>
    /\ UNCHANGED tillVars

NextResolve == CallResolveUnitsAndPrices

SpecResolve == InitResolve /\ [][NextResolve]_vars

Resolved == pc = "returned" /\ args.fn = "resolveUnitsAndPrices"

\* the product carries a non-empty unit list and a non-empty price mapping
HasOwnPricing(p) ==
    /\ p.units # None /\ Len(p.units[1]) > 0
    /\ p.pricesPence # None /\ DOMAIN p.pricesPence[1] # {}

\* C10: a product with its own non-empty unit list and non-empty price mapping
\* resolves to exactly those two values, whatever its band reference is
\* (resolving, dangling or absent).
C10_OverridePrecedence ==
    (Resolved /\ HasOwnPricing(args.product))
        => /\ ret = [units |-> args.product.units[1], pricesPence |-> args.product.pricesPence[1]]
           /\ \A b \in {None} \cup {Some(i) : i \in BandIds \cup {"band-gone"}} :
                 resolveUnitsAndPrices(state.bands, [args.product EXCEPT !.bandId = b]) = ret

C10_Witness_OverrideOverBand ==
    /\ Resolved /\ HasOwnPricing(args.product)
    /\ bandById(state.bands, args.product.bandId) # None
    /\ bandById(state.bands, args.product.bandId)[1].pricesPence # args.product.pricesPence[1]
    /\ ret.pricesPence = args.product.pricesPence[1]

\* C11: a product that lacks a non-empty unit list or a non-empty price
\* mapping of its own (either absent or empty) resolves to the units and
\* prices of the band it references, when that band exists.
C11_BandPathWithoutOwnPricing ==
    (/\ Resolved
     /\ ~HasOwnPricing(args.product)
     /\ bandById(state.bands, args.product.bandId) # None)
        => LET band == bandById(state.bands, args.product.bandId)[1]
           IN  ret = [units |-> band.units, pricesPence |-> band.pricesPence]

----------------------------------------------------------------------------
(* The till: catalog *)

MaxBasketQty == 2     \* largest number of units in the basket

EditPrices == {0}             \* Math.round(n * 100) of the prices typed in the admin panel
QuickCashValues == {500}      \* quick cash buttons pressed

\* DEFAULT_STATE, cut down to one band of one unit, one product priced by it
\* and one individually priced product with a bundle deal
DEFAULT_STATE ==
    [bands |-> <<[id |-> "band-premium", units |-> <<"Single">>,
                  pricesPence |-> [u \in {"Single"} |-> 450]]>>,
     products |->
        <<[id |-> "p-gin1", name |-> "Tanqueray", bandId |-> Some("band-premium"),
           units |-> None, pricesPence |-> None, deals |-> None],
          [id |-> "p-cocktail", name |-> "Cocktail", bandId |-> None,
           units |-> Some(<<"One">>), pricesPence |-> Some([u \in {"One"} |-> 700]),
           deals |-> Some(<<Deal("bundle", Num(2), Num(1200))>>)]>>,
     pinEnabled |-> FALSE,
     pin |-> "1234"]

\* a configuration file whose only product names a band the file does not hold
DanglingConfig ==
    [bands |-> <<>>,
     products |->
        <<[id |-> "p-gin1", name |-> "Tanqueray", bandId |-> Some("band-premium"),
           units |-> None, pricesPence |-> None, deals |-> None]>>,
     pinEnabled |-> FALSE,
     pin |-> "1234"]

\* files handed to importJson: text that JSON.parse rejects, or a configuration
InvalidFile == [valid |-> FALSE, json |-> None]
ValidFile(c) == [valid |-> TRUE, json |-> Some(c)]
ImportFiles == {InvalidFile, ValidFile(DanglingConfig)}

----------------------------------------------------------------------------
(* The till: handlers as functions of the values they read *)

Keys(b) == {b[i].key : i \in 1..Len(b)}

RECURSIVE TotalQty(_)
TotalQty(b) == IF b = <<>> THEN 0 ELSE Head(b).qty + TotalQty(Tail(b))

\* uid(): eight random characters, taken to differ from every key in use.
\* Keys are only compared for equality, so the smallest free number stands
\* for the new key.
uid(b, lastKey) ==
    CHOOSE k \in 1..(Len(b) + 2) :
        /\ k \notin Keys(b) /\ lastKey # Some(k)
        /\ \A j \in 1..(k - 1) : j \in Keys(b) \/ lastKey = Some(j)

\* pricesPence[unit] ?? 0
priceOf(pricesPence, unit) == IF unit \in DOMAIN pricesPence THEN pricesPence[unit] ELSE 0

\* unit === "One" ? product.name : `${product.name} (${unit})`
labelOf(product, unit) == IF unit = "One" THEN <<product.name>> ELSE <<product.name, unit>>

addToBasket_IgnoresPrice(bands, seen, cur, lastKey, product, unit) ==
    LET pricePence == priceOf(resolveUnitsAndPrices(bands, product).pricesPence, unit)
        found == {i \in 1..Len(seen) : seen[i].productId = product.id /\ seen[i].unit = unit}
    IN  IF found # {}
        THEN LET existingIndex == CHOOSE i \in found : \A j \in found : i <= j
                 next == [i \in 1..Len(seen) |->
                             IF i = existingIndex THEN [seen[i] EXCEPT !.qty = @ + 1]
                             ELSE seen[i]]
             IN  [basket |-> next, lastAddKey |-> Some(next[existingIndex].key)]
        ELSE LET line == [key |-> uid(cur, lastKey), productId |-> product.id,
                          label |-> labelOf(product, unit), unit |-> unit,
                          pricePence |-> pricePence, qty |-> 1]
             IN  [basket |-> Append(cur, line), lastAddKey |-> Some(line.key)]

addToBasket_NeverMerges(bands, seen, cur, lastKey, product, unit) ==
    LET line == [key |-> uid(cur, lastKey), productId |-> product.id,
                 label |-> labelOf(product, unit), unit |-> unit,
                 pricePence |-> priceOf(resolveUnitsAndPrices(bands, product).pricesPence, unit),
                 qty |-> 1]
    IN  [basket |-> Append(cur, line), lastAddKey |-> Some(line.key)]

\* addToBasket(product, unit): `seen` is the basket of the render the handler
\* closes over, `cur` the basket the queued updater function receives.
addToBasket(bands, seen, cur, lastKey, product, unit) ==
    LET pricePence == priceOf(resolveUnitsAndPrices(bands, product).pricesPence, unit)
        found == {i \in 1..Len(seen) :
                     /\ seen[i].productId = product.id
                     /\ seen[i].unit = unit
                     /\ seen[i].pricePence = pricePence}
    IN  IF found # {}
        THEN LET existingIndex == CHOOSE i \in found : \A j \in found : i <= j
                 next == [i \in 1..Len(seen) |->
                             IF i = existingIndex THEN [seen[i] EXCEPT !.qty = @ + 1]
                             ELSE seen[i]]
             IN  [basket |-> next, lastAddKey |-> Some(next[existingIndex].key)]
        ELSE LET line == [key |-> uid(cur, lastKey), productId |-> product.id,
                          label |-> labelOf(product, unit), unit |-> unit,
                          pricePence |-> pricePence, qty |-> 1]
             IN  [basket |-> Append(cur, line), lastAddKey |-> Some(line.key)]

incQty(b, key) ==
    [i \in 1..Len(b) |-> IF b[i].key = key THEN [b[i] EXCEPT !.qty = @ + 1] ELSE b[i]]

decQty_KeepsZero(b, key) ==
    [i \in 1..Len(b) |-> IF b[i].key = key THEN [b[i] EXCEPT !.qty = @ - 1] ELSE b[i]]

decQty(b, key) ==
    SelectSeq([i \in 1..Len(b) |-> IF b[i].key = key THEN [b[i] EXCEPT !.qty = @ - 1] ELSE b[i]],
              LAMBDA l : l.qty > 0)

removeLine_DropsRest(b, key) ==
    LET hits == {i \in 1..Len(b) : b[i].key = key}
    IN  IF hits = {} THEN b
        ELSE SubSeq(b, 1, (CHOOSE i \in hits : \A j \in hits : i <= j) - 1)

removeLine(b, key) == SelectSeq(b, LAMBDA l : l.key # key)

undoLastAdd_RemovesLine(b, lastKey) == IF lastKey = None THEN b ELSE removeLine(b, lastKey[1])

\* undoLastAdd(): if (!lastAddKey) return; decQty(lastAddKey)
undoLastAdd(b, lastKey) == IF lastKey = None THEN b ELSE decQty(b, lastKey[1])

updateBandPrice_Ignored(s, bandId, unit, newPence) == s

updateBandPrice_DropsOtherUnits(s, bandId, unit, newPence) ==
    [s EXCEPT !.bands =
        [i \in 1..Len(s.bands) |->
            IF s.bands[i].id = bandId
            THEN [s.bands[i] EXCEPT !.pricesPence = [u \in {unit} |-> newPence]]
            ELSE s.bands[i]]]

updateBandPrice_EveryBand(s, bandId, unit, newPence) ==
    [s EXCEPT !.bands =
        [i \in 1..Len(s.bands) |->
            [s.bands[i] EXCEPT !.pricesPence =
                [u \in DOMAIN @ \cup {unit} |-> IF u = unit THEN newPence ELSE @[u]]]]]

updateBandPrice(s, bandId, unit, newPence) ==
    [s EXCEPT !.bands =
        [i \in 1..Len(s.bands) |->
            IF s.bands[i].id = bandId
            THEN [s.bands[i] EXCEPT !.pricesPence =
                     [u \in DOMAIN @ \cup {unit} |-> IF u = unit THEN newPence ELSE @[u]]]
            ELSE s.bands[i]]]

updateOverridePrice(s, productId, unit, newPence) ==
    [s EXCEPT !.products =
        [i \in 1..Len(s.products) |->
            IF s.products[i].id # productId THEN s.products[i]
            ELSE LET old == IF s.products[i].pricesPence = None THEN EmptyPrices
                            ELSE s.products[i].pricesPence[1]
                 IN  [s.products[i] EXCEPT !.pricesPence =
                         Some([u \in DOMAIN old \cup {unit} |->
                                  IF u = unit THEN newPence ELSE old[u]])]]]

----------------------------------------------------------------------------
(* The till: one action per handler *)

Range(f) == {f[i] : i \in DOMAIN f}

\* The handlers of the till are the same text in both copies of the app.
Init ==
    /\ build = "App.jsx"
    /\ state = DEFAULT_STATE
    /\ pc = "idle" /\ args = NoRet /\ ret = NoRet
    /\ TillInit

\* a product button, or a unit button of a product card
AddToBasket ==
    /\ TotalQty(basket) < MaxBasketQty
    /\ \E product \in Range(state.products) :
          \E unit \in Range(resolveUnitsAndPrices(state.bands, product).units) :
             LET r == addToBasket(state.bands, basket, basket, lastAddKey, product, unit)
             IN  /\ basket' = r.basket
                 /\ lastAddKey' = r.lastAddKey
                 /\ last' = [op |-> "addToBasket", productId |-> product.id, unit |-> unit,
                             pricePence |->
                                priceOf(resolveUnitsAndPrices(state.bands, product).pricesPence, unit)]
    /\ UNCHANGED <<build, state, engineVars, rendered, cashPence, adminOpen, pinEntry, authed>>

\* the + button of a line
IncQty ==
    /\ TotalQty(basket) < MaxBasketQty
    /\ \E key \in Keys(basket) :
          /\ basket' = incQty(basket, key)
          /\ last' = [op |-> "incQty", key |-> key]
    /\ UNCHANGED <<build, state, engineVars, rendered, lastAddKey, cashPence, adminOpen, pinEntry, authed>>

\* the - button of a line
DecQty ==
    /\ \E key \in Keys(basket) :
          /\ basket' = decQty(basket, key)
          /\ last' = [op |-> "decQty", key |-> key]
    /\ UNCHANGED <<build, state, engineVars, rendered, lastAddKey, cashPence, adminOpen, pinEntry, authed>>

\* the remove button of a line
RemoveLine ==
    /\ \E key \in Keys(basket) :
          /\ basket' = removeLine(basket, key)
          /\ last' = [op |-> "removeLine", key |-> key]
    /\ UNCHANGED <<build, state, engineVars, rendered, lastAddKey, cashPence, adminOpen, pinEntry, authed>>

\* the Undo button, disabled while the basket is empty
UndoLastAdd ==
    /\ Len(basket) > 0
    /\ basket' = undoLastAdd(basket, lastAddKey)
    /\ last' = [op |-> "undoLastAdd", key |-> lastAddKey]
    /\ UNCHANGED <<build, state, engineVars, rendered, lastAddKey, cashPence, adminOpen, pinEntry, authed>>

ClearSale_KeepsCash ==
    /\ \E confirmed \in BOOLEAN :
          /\ last' = [op |-> "clearSale", confirmed |-> confirmed]
          /\ IF confirmed
             THEN basket' = <<>> /\ lastAddKey' = None
             ELSE UNCHANGED <<basket, lastAddKey>>
    /\ UNCHANGED <<build, state, engineVars, rendered, cashPence, adminOpen, pinEntry, authed>>

\* the Clear Sale button; confirmed is the answer to confirm()
ClearSale ==
    /\ \E confirmed \in BOOLEAN :
          /\ last' = [op |-> "clearSale", confirmed |-> confirmed]
          /\ IF confirmed
             THEN basket' = <<>> /\ cashPence' = 0 /\ lastAddKey' = None
             ELSE UNCHANGED <<basket, cashPence, lastAddKey>>
    /\ UNCHANGED <<build, state, engineVars, rendered, adminOpen, pinEntry, authed>>

\* a quick cash button
QuickCash ==
    /\ \E v \in QuickCashValues :
          /\ cashPence' = v
          /\ last' = [op |-> "quickCash", pence |-> v]
    /\ UNCHANGED <<build, state, engineVars, rendered, basket, lastAddKey, adminOpen, pinEntry, authed>>

OpenAdmin_AlwaysAuthed ==
    /\ adminOpen' = TRUE
    /\ pinEntry' = ""
    /\ authed' = TRUE
    /\ last' = [op |-> "openAdmin"]
    /\ UNCHANGED <<build, state, engineVars, rendered, basket, lastAddKey, cashPence>>

OpenAdmin ==
    /\ adminOpen' = TRUE
    /\ pinEntry' = ""
    /\ authed' = ~state.pinEnabled
    /\ last' = [op |-> "openAdmin"]
    /\ UNCHANGED <<build, state, engineVars, rendered, basket, lastAddKey, cashPence>>

CloseAdmin ==
    /\ adminOpen
    /\ adminOpen' = FALSE
    /\ pinEntry' = ""
    /\ authed' = FALSE
    /\ last' = [op |-> "closeAdmin"]
    /\ UNCHANGED <<build, state, engineVars, rendered, basket, lastAddKey, cashPence>>

UpdateBandPrice_RepricesLines ==
    /\ adminOpen /\ authed
    /\ \E b \in Range(state.bands) : \E unit \in Range(b.units) : \E newPence \in EditPrices :
          /\ state' = updateBandPrice(state, b.id, unit, newPence)
          /\ basket' = [i \in 1..Len(basket) |->
                           IF basket[i].unit = unit
                           THEN [basket[i] EXCEPT !.pricePence = newPence]
                           ELSE basket[i]]
          /\ last' = [op |-> "updateBandPrice", bandId |-> b.id, unit |-> unit, pence |-> newPence]
    /\ UNCHANGED <<build, engineVars, rendered, lastAddKey, cashPence, adminOpen, pinEntry, authed>>

\* onBlur of a price field of a band
UpdateBandPrice ==
    /\ adminOpen /\ authed
    /\ \E b \in Range(state.bands) : \E unit \in Range(b.units) : \E newPence \in EditPrices :
          /\ state' = updateBandPrice(state, b.id, unit, newPence)
          /\ last' = [op |-> "updateBandPrice", bandId |-> b.id, unit |-> unit, pence |-> newPence]
    /\ UNCHANGED <<build, engineVars, rendered, basket, lastAddKey, cashPence, adminOpen, pinEntry, authed>>

\* onBlur of a price field of an individually priced product
UpdateOverridePrice ==
    /\ adminOpen /\ authed
    /\ \E p \in {q \in Range(state.products) : q.pricesPence # None /\ q.units # None} :
          \E unit \in Range(p.units[1]) : \E newPence \in EditPrices :
             /\ state' = updateOverridePrice(state, p.id, unit, newPence)
             /\ last' = [op |-> "updateOverridePrice", productId |-> p.id, unit |-> unit,
                         pence |-> newPence]
    /\ UNCHANGED <<build, engineVars, rendered, basket, lastAddKey, cashPence, adminOpen, pinEntry, authed>>

\* the Reset Defaults button; confirmed is the answer to confirm()
ResetDefaults ==
    /\ adminOpen /\ authed
    /\ \E confirmed \in BOOLEAN :
          /\ state' = IF confirmed THEN DEFAULT_STATE ELSE state
          /\ last' = [op |-> "resetDefaults", confirmed |-> confirmed]
    /\ UNCHANGED <<build, engineVars, rendered, basket, lastAddKey, cashPence, adminOpen, pinEntry, authed>>

ImportJson_ResetsOnError ==
    /\ adminOpen /\ authed
    /\ \E file \in ImportFiles :
          /\ state' = IF file.valid THEN file.json[1] ELSE DEFAULT_STATE
          /\ last' = [op |-> "importJson", valid |-> file.valid]
    /\ UNCHANGED <<build, engineVars, rendered, basket, lastAddKey, cashPence, adminOpen, pinEntry, authed>>

\* importJson(file) with its reader.onload: JSON.parse(reader.result), then
\* setState(next) unless it threw. The file is read before the next event.
ImportJson ==
    /\ adminOpen /\ authed
    /\ \E file \in ImportFiles :
          /\ state' = IF file.valid THEN file.json[1] ELSE state
          /\ last' = [op |-> "importJson", valid |-> file.valid]
    /\ UNCHANGED <<build, engineVars, rendered, basket, lastAddKey, cashPence, adminOpen, pinEntry, authed>>

Next ==
    \/ AddToBasket \/ IncQty \/ DecQty \/ RemoveLine \/ UndoLastAdd \/ ClearSale
    \/ QuickCash \/ OpenAdmin \/ CloseAdmin
    \/ UpdateBandPrice \/ UpdateOverridePrice \/ ResetDefaults \/ ImportJson

Spec == Init /\ [][Next]_vars

----------------------------------------------------------------------------
(* The till: claims *)

\* the positions of the lines that carry a key
At(b, key) == {i \in 1..Len(b) : b[i].key = key}

\* the product carries no units and no prices of its own
NoOverride(p) == p.units = None /\ p.pricesPence = None

\* the products of a catalog that take their prices from a band
BandPriced(s, bandId) ==
    {p \in Range(s.products) : NoOverride(p) /\ p.bandId = Some(bandId)}

\* the step just taken added to the basket: the line the last-add marker names
\* was created with quantity 1 at the end of the basket, or is an old line
\* whose quantity grew by 1
CreatedLine(i) ==
    /\ Len(basket') = Len(basket) + 1 /\ i = Len(basket')
    /\ basket'[i].qty = 1
    /\ \A j \in 1..Len(basket) : basket'[j] = basket[j]

IncrementedLine(i) ==
    /\ Len(basket') = Len(basket) /\ i \in 1..Len(basket)
    /\ basket'[i] = [basket[i] EXCEPT !.qty = @ + 1]
    /\ \A j \in 1..Len(basket) : j # i => basket'[j] = basket[j]

\* C12: once updateBandPrice(band, unit, p) has run, every product that takes
\* its prices from that band resolves to p for that unit; and addToBasket of
\* a band-priced product creates, or increments, a line at the band's price
\* of that moment -- so at p after the edit.
C12_BandEditReachesProducts ==
    [][ /\ last'.op = "updateBandPrice"
            => \A p \in BandPriced(state', last'.bandId) :
                  LET r == resolveUnitsAndPrices(state'.bands, p)
                  IN  /\ last'.unit \in DOMAIN r.pricesPence
                      /\ r.pricesPence[last'.unit] = last'.pence
        /\ last'.op = "addToBasket"
            => \A b \in Range(state.bands) : \A p \in BandPriced(state, b.id) :
                  (p.id = last'.productId /\ bandById(state.bands, Some(b.id)) = Some(b))
                     => /\ lastAddKey' # None
                        /\ \E i \in At(basket', lastAddKey'[1]) :
                              /\ basket'[i].productId = p.id
                              /\ basket'[i].unit = last'.unit
                              /\ basket'[i].pricePence = b.pricesPence[last'.unit]
                              /\ CreatedLine(i) \/ IncrementedLine(i)
      ]_vars

\* an add right after a band edit put a line at the edited price in the basket
C12_Witness_AddAfterBandEdit ==
    /\ last.op = "addToBasket" /\ last.productId = "p-gin1" /\ last.unit = "Single"
    /\ state.bands # <<>> /\ state.bands[1].pricesPence["Single"] = 0
    /\ lastAddKey # None
    /\ \E i \in At(basket, lastAddKey[1]) :
          basket[i].pricePence = 0 /\ basket[i].unit = "Single" /\ basket[i].qty = 2

\* the fallback of the resolver
OneAtZero == [units |-> <<"One">>, pricesPence |-> [u \in {"One"} |-> 0]]

\* the products of a catalog without units and prices of their own whose band
\* reference is absent or names no band
Unbanded(s) ==
    {p \in Range(s.products) : NoOverride(p) /\ bandById(s.bands, p.bandId) = None}

\* C13: a product without units and prices of its own whose band reference is
\* missing or dangling resolves to the unit list <<"One">> and the price
\* mapping One -> 0, and adding it to the basket yields a line with unit "One"
\* and unit price 0.
C13_DanglingBandFallback ==
    [][ /\ \A p \in Unbanded(state') : resolveUnitsAndPrices(state'.bands, p) = OneAtZero
        /\ last'.op = "addToBasket"
            => \A p \in Unbanded(state) :
                  p.id = last'.productId
                     => /\ last'.unit = "One"
                        /\ lastAddKey' # None
                        /\ \E i \in At(basket', lastAddKey'[1]) :
                              /\ basket'[i].productId = p.id
                              /\ basket'[i].unit = "One"
                              /\ basket'[i].pricePence = 0
                              /\ CreatedLine(i) \/ IncrementedLine(i)
      ]_vars

\* the product of the imported configuration, whose band is gone, was added
C13_Witness_DanglingProductAdded ==
    /\ state = DanglingConfig
    /\ last.op = "addToBasket" /\ last.productId = "p-gin1" /\ last.unit = "One"
    /\ lastAddKey # None
    /\ \E i \in At(basket, lastAddKey[1]) :
          basket[i].pricePence = 0 /\ basket[i].unit = "One" /\ basket[i].productId = "p-gin1"

\* the price the resolver gives, in catalog s, for a unit of the product with
\* the given id
ResolvedPrices(s, productId, unit) ==
    {priceOf(resolveUnitsAndPrices(s.bands, p).pricesPence, unit) :
        p \in {q \in Range(s.products) : q.id = productId}}

\* C14: a line enters the basket at the price the resolver gives for its
\* product and unit at that moment, and keeps that price for as long as it
\* exists, whatever runs afterwards (price edits, import, reset to defaults,
\* addToBasket, incQty, decQty, undo).
C14_LinePriceFixedAtCreation ==
    [][ /\ \A i \in 1..Len(basket) : \A j \in 1..Len(basket') :
              basket'[j].key = basket[i].key
                 => basket'[j].pricePence = basket[i].pricePence
        /\ \A j \in 1..Len(basket') :
              basket'[j].key \notin Keys(basket)
                 => basket'[j].pricePence
                       \in ResolvedPrices(state, basket'[j].productId, basket'[j].unit)
      ]_vars

\* after a band edit, a line still carries the price it was created at,
\* which the resolver no longer gives
C14_Witness_LineKeepsOldPrice ==
    /\ last.op = "updateBandPrice"
    /\ \E i \in 1..Len(basket) :
          /\ basket[i].productId = "p-gin1" /\ basket[i].pricePence = 450
          /\ ResolvedPrices(state, "p-gin1", basket[i].unit) = {0}

\* the positions of the lines that carry a triple (product, unit, unit price)
WithTriple(b, productId, unit, pricePence) ==
    {i \in 1..Len(b) :
        b[i].productId = productId /\ b[i].unit = unit /\ b[i].pricePence = pricePence}

NoDuplicateTriples(b) ==
    \A i, j \in 1..Len(b) :
        (/\ b[i].productId = b[j].productId
         /\ b[i].unit = b[j].unit
         /\ b[i].pricePence = b[j].pricePence) => i = j

\* C15: with each operation applied to the current basket, no two lines of
\* the basket ever share the triple (productId, unit, pricePence);
\* addToBasket for a triple the basket holds adds 1 to the quantity of that
\* line and adds no line, and for any other triple appends exactly one line
\* with quantity 1.
C15_OneLinePerTriple ==
    /\ [](NoDuplicateTriples(basket))
    /\ [][ last'.op = "addToBasket"
             => LET held == WithTriple(basket, last'.productId, last'.unit, last'.pricePence)
                IN  IF held # {}
                    THEN \E i \in held : IncrementedLine(i)
                    ELSE /\ CreatedLine(Len(basket'))
                         /\ Len(basket') \in WithTriple(basket', last'.productId, last'.unit,
                                                        last'.pricePence)
         ]_vars

\* an add found its triple in the basket and incremented that line
C15_Witness_AddMergedIntoLine ==
    /\ last.op = "addToBasket"
    /\ Len(basket) = 1
    /\ \E i \in WithTriple(basket, last.productId, last.unit, last.pricePence) :
          basket[i].qty = 2 /\ lastAddKey = Some(basket[i].key)

\* the handler that ran last edited the price that the product with the
\* given id has for the unit
EditedPriceOf(l, productId, unit) ==
    \/ /\ l.op = "updateBandPrice" /\ l.unit = unit
       /\ \E p \in BandPriced(state, l.bandId) : p.id = productId
    \/ /\ l.op = "updateOverridePrice" /\ l.unit = unit /\ l.productId = productId

\* C16: an add that directly follows an add of the same product and unit
\* increments the line of the first add (to quantity 2 when the first add
\* created it) and adds no line; an add that directly follows an admin edit
\* of that unit's price to a different value leaves every line of the product
\* and unit at another price as it was, and lands in a separate line at the
\* new price, which it appends with quantity 1 when the basket held none.
C16_MergeUntilPriceEdit ==
    [][ last'.op = "addToBasket"
          => /\ (/\ last.op = "addToBasket"
                 /\ last.productId = last'.productId /\ last.unit = last'.unit)
                   => /\ lastAddKey' = lastAddKey
                      /\ \E i \in At(basket, lastAddKey[1]) :
                            /\ IncrementedLine(i)
                            /\ basket[i].qty = 1 => basket'[i].qty = 2
             /\ EditedPriceOf(last, last'.productId, last'.unit)
                   => \A i \in 1..Len(basket) :
                         (/\ basket[i].productId = last'.productId
                          /\ basket[i].unit = last'.unit
                          /\ basket[i].pricePence # last.pence)
                            => /\ basket'[i] = basket[i]
                               /\ \E j \in At(basket', lastAddKey'[1]) :
                                     /\ j # i
                                     /\ basket'[j].productId = last'.productId
                                     /\ basket'[j].unit = last'.unit
                                     /\ basket'[j].pricePence = last.pence
                                     /\ WithTriple(basket, last'.productId, last'.unit,
                                                   last.pence) = {}
                                           => CreatedLine(j)
      ]_vars

\* an add after a band edit made a second line for the same product and unit
C16_Witness_SecondLineAfterEdit ==
    /\ last.op = "addToBasket" /\ last.productId = "p-gin1" /\ last.unit = "Single"
    /\ Len(basket) = 2
    /\ basket[1].productId = "p-gin1" /\ basket[1].unit = "Single"
    /\ basket[1].pricePence = 450 /\ basket[1].qty = 1
    /\ basket[2].productId = "p-gin1" /\ basket[2].unit = "Single"
    /\ basket[2].pricePence = 0 /\ basket[2].qty = 1
    /\ lastAddKey = Some(basket[2].key)

\* the basket without the line at position i
Without(b, i) == [j \in 1..(Len(b) - 1) |-> IF j < i THEN b[j] ELSE b[j + 1]]

\* C17: every line of the basket has an integer quantity of at least 1,
\* after any sequence of addToBasket, incQty, decQty, removeLine, undo and
\* clearSale; decQty of a line with quantity 1, pressed on the line or
\* reached through undo, removes the line.
C17_QuantityAtLeastOne ==
    /\ [](\A i \in 1..Len(basket) : basket[i].qty \in Nat /\ basket[i].qty >= 1)
    /\ [][ /\ last'.op = "decQty"
               => \A i \in At(basket, last'.key) :
                     basket[i].qty = 1 => basket' = Without(basket, i)
           /\ (last'.op = "undoLastAdd" /\ lastAddKey # None)
               => \A i \in At(basket, lastAddKey[1]) :
                     basket[i].qty = 1 => basket' = Without(basket, i)
         ]_vars

\* undo took the only line, which had quantity 1, out of the basket
C17_Witness_UndoRemovedLine ==
    /\ last.op = "undoLastAdd" /\ last.key # None
    /\ basket = <<>>

\* C18: a confirmed clearSale leaves the basket empty, the cash tendered 0
\* and the last-add marker unset, and does not touch the catalog; a declined
\* clearSale changes nothing.
C18_ClearSaleFrame ==
    [][ last'.op = "clearSale"
          => IF last'.confirmed
             THEN /\ basket' = <<>> /\ cashPence' = 0 /\ lastAddKey' = None
                  /\ UNCHANGED <<state, adminOpen, pinEntry, authed>>
             ELSE UNCHANGED <<state, basket, cashPence, lastAddKey, adminOpen, pinEntry, authed>>
      ]_vars

\* a sale was cleared while the catalog carried an edited band price
C18_Witness_ClearedWithEditedCatalog ==
    /\ last = [op |-> "clearSale", confirmed |-> TRUE]
    /\ basket = <<>> /\ cashPence = 0 /\ lastAddKey = None
    /\ state.bands # <<>> /\ state.bands[1].pricesPence["Single"] = 0

\* C20: an import of a file that is not valid JSON leaves the catalog state
\* and the basket exactly as they were.
C20_InvalidImportChangesNothing ==
    [][ (last'.op = "importJson" /\ ~last'.valid)
          => UNCHANGED <<state, basket, lastAddKey, cashPence, adminOpen, pinEntry, authed>>
      ]_vars

\* an invalid file was imported over an edited catalog and a basket in use
C20_Witness_InvalidImportOverEdits ==
    /\ last = [op |-> "importJson", valid |-> FALSE]
    /\ state # DEFAULT_STATE /\ state # DanglingConfig
    /\ basket # <<>>

----------------------------------------------------------------------------
(* The till: the cash field *)

MaxCashLen == 3     \* longest text typed or pasted into the cash field

CashChars == {"1", "2", ".", "a"}

CashInputs == SeqsUpTo(CashChars, MaxCashLen)

\* (input || "").replace(/[^\d.]/g, "")
cleanedOf(input) == SelectSeq(input, LAMBDA c : IsDigit(c) \/ c = ".")

\* Number(cleaned) for a text of digits and dots, as None when it is NaN and
\* otherwise as Some of Math.round(n * 100): the empty text is 0, a text with
\* two dots or without a digit is NaN. Decimals past the third are dropped,
\* which changes the rounding only for a third decimal of exactly 5.
penceOf(cleaned) ==
    LET dots == {i \in 1..Len(cleaned) : cleaned[i] = "."}
    IN  IF cleaned = <<>> THEN Some(0)
        ELSE IF Cardinality(dots) > 1 \/ Cardinality(dots) = Len(cleaned) THEN None
        ELSE LET d == IF dots = {} THEN Len(cleaned) + 1 ELSE CHOOSE i \in dots : TRUE
                 whole == SubSeq(cleaned, 1, d - 1)
                 frac == SubSeq(SubSeq(cleaned, d + 1, Len(cleaned)) \o <<"0", "0", "0">>, 1, 3)
             IN  Some((1000 * NatOf(whole) + NatOf(frac) + 5) \div 10)

\* setCashFromPounds(input): the new value of cashPence
setCashFromPounds(input) ==
    LET n == penceOf(cleanedOf(input))
    IN  IF n = None THEN 0 ELSE n[1]

\* onChange of the cash field
SetCashFromPounds ==
    /\ \E input \in CashInputs :
          /\ cashPence' = setCashFromPounds(input)
          /\ last' = [op |-> "setCashFromPounds", input |-> input]
    /\ UNCHANGED <<build, state, engineVars, rendered, basket, lastAddKey, adminOpen, pinEntry, authed>>

NextCash == SetCashFromPounds \/ QuickCash \/ AddToBasket \/ ClearSale

SpecCash == Init /\ [][NextCash]_vars

\* the text is a decimal number: digits with at most one dot among them
IsDecimalText(input) ==
    /\ \E i \in 1..Len(input) : IsDigit(input[i])
    /\ \A i \in 1..Len(input) : IsDigit(input[i]) \/ input[i] = "."
    /\ Cardinality({i \in 1..Len(input) : input[i] = "."}) <= 1

\* C19: setCashFromPounds with an input that is not a number leaves cashPence
\* at the value it had before the call.
C19_NonNumericCashKeepsAmount ==
    [][ (last'.op = "setCashFromPounds" /\ ~IsDecimalText(last'.input))
          => cashPence' = cashPence
      ]_vars

----------------------------------------------------------------------------
(* The till: the PIN of the admin panel *)

PinTexts == {"", "1234", "0000"}      \* texts typed into the PIN fields

tryPin_AnyEntry(entry, s, wasAuthed) == TRUE

\* tryPin(): the new value of authed
tryPin(entry, s, wasAuthed) == IF entry = s.pin THEN TRUE ELSE wasAuthed

\* onChange of the PIN field of the locked panel
SetPinEntry ==
    /\ adminOpen /\ ~authed
    /\ \E text \in PinTexts :
          /\ pinEntry' = text
          /\ last' = [op |-> "setPinEntry", text |-> text]
    /\ UNCHANGED <<build, state, engineVars, rendered, basket, lastAddKey, cashPence, adminOpen, authed>>

\* the Unlock button of the locked panel
TryPin ==
    /\ adminOpen /\ ~authed
    /\ authed' = tryPin(pinEntry, state, authed)
    /\ last' = [op |-> "tryPin", entry |-> pinEntry]
    /\ UNCHANGED <<build, state, engineVars, rendered, basket, lastAddKey, cashPence, adminOpen, pinEntry>>

\* the checkbox "Require PIN to edit prices"
SetPinEnabled ==
    /\ adminOpen /\ authed
    /\ \E checked \in BOOLEAN :
          /\ state' = [state EXCEPT !.pinEnabled = checked]
          /\ last' = [op |-> "setPinEnabled", checked |-> checked]
    /\ UNCHANGED <<build, engineVars, rendered, basket, lastAddKey, cashPence, adminOpen, pinEntry, authed>>

\* onBlur of the field "New PIN": pin: e.target.value || "1234"
SetPin ==
    /\ adminOpen /\ authed
    /\ \E text \in PinTexts :
          /\ state' = [state EXCEPT !.pin = IF text = "" THEN "1234" ELSE text]
          /\ last' = [op |-> "setPin", text |-> text]
    /\ UNCHANGED <<build, engineVars, rendered, basket, lastAddKey, cashPence, adminOpen, pinEntry, authed>>

NextPin ==
    \/ OpenAdmin \/ CloseAdmin \/ SetPinEntry \/ TryPin \/ SetPinEnabled \/ SetPin
    \/ UpdateBandPrice \/ UpdateOverridePrice \/ AddToBasket

SpecPin == Init /\ [][NextPin]_vars

\* C21: tryPin with an entry other than the stored PIN leaves the panel
\* unauthenticated and leaves catalog and basket as they were; authed becomes
\* true only for an entry equal to the stored PIN.
C21_WrongPinStaysLocked ==
    [][ last'.op = "tryPin"
          => /\ pinEntry # state.pin => (~authed /\ ~authed')
             /\ authed' => pinEntry = state.pin
             /\ UNCHANGED <<state, basket, lastAddKey, cashPence, adminOpen, pinEntry>>
      ]_vars

\* a wrong entry was tried on a locked panel while the basket was in use
C21_Witness_WrongPinTried ==
    /\ last.op = "tryPin" /\ last.entry = "0000"
    /\ state.pinEnabled /\ state.pin = "1234"
    /\ adminOpen /\ ~authed
    /\ basket # <<>>

----------------------------------------------------------------------------
(* The till: line totals *)

\* productById.get(id): the Map built by state.products.forEach; a later
\* product with the same id replaces an earlier one.
productById(products, id) ==
    LET hits == {i \in 1..Len(products) : products[i].id = id}
    IN  IF hits = {} THEN None
        ELSE Some(products[CHOOSE i \in hits : \A j \in hits : j <= i])

\* lineTotal(line) of build b; product?.deals is absent when the catalog has
\* no product with the id of the line
lineTotal(b, products, line) ==
    LET product == productById(products, line.productId)
        deals == IF product = None THEN None ELSE product[1].deals
    IN  bestLineTotalWithDeals(b, line.pricePence, line.qty, deals)

\* a total that merges the quantities of the lines of one product and unit
\* before it applies the deals
RECURSIVE totalPence_CombinedLines(_, _, _)
totalPence_CombinedLines(b, products, lines) ==
    IF lines = <<>> THEN 0
    ELSE LET n == Len(lines)
             same == {i \in 1..(n - 1) : /\ lines[i].productId = lines[n].productId
                                         /\ lines[i].unit = lines[n].unit}
         IN  IF same = {}
             THEN totalPence_CombinedLines(b, products, SubSeq(lines, 1, n - 1))
                     + lineTotal(b, products, lines[n]).totalPence
             ELSE LET k == CHOOSE i \in same : TRUE
                  IN  totalPence_CombinedLines(b, products,
                          [i \in 1..(n - 1) |->
                              IF i = k THEN [lines[i] EXCEPT !.qty = @ + lines[n].qty]
                              ELSE lines[i]])

\* basket.reduce((sum, line) => sum + lineTotal(line).totalPence, 0)
RECURSIVE totalPence(_, _, _)
totalPence(b, products, lines) ==
    IF lines = <<>> THEN 0
    ELSE totalPence(b, products, SubSeq(lines, 1, Len(lines) - 1))
            + lineTotal(b, products, lines[Len(lines)]).totalPence

----------------------------------------------------------------------------
(* The till: the price fields of the admin panel *)

\* texts typed into a price field, in pounds: "-1", "8" and a text that is no number
TypedPrices == {NumStr(-1), NumStr(8), TextStr}

\* n = Number(e.target.value); if (!Number.isFinite(n)) return; Math.round(n * 100)
typedPence(text) ==
    LET n == ToNumber(text)
    IN  IF NumberIsFinite(n) THEN Some(n.v * 100) ELSE None

\* the default catalog with both units of its band
DefaultWithBothUnits ==
    [DEFAULT_STATE EXCEPT
        !.bands = <<[id |-> "band-premium", units |-> <<"Single", "Double">>,
                     pricesPence |-> SpiritPrices(450, 850)]>>]

InitEdit ==
    /\ build = "App.jsx"
    /\ state = DefaultWithBothUnits
    /\ pc = "idle" /\ args = NoRet /\ ret = NoRet
    /\ TillInit

\* onBlur of a price field of a band
BlurBandPrice ==
    /\ adminOpen /\ authed
    /\ \E b \in Range(state.bands) : \E unit \in Range(b.units) : \E text \in TypedPrices :
          /\ state' = IF typedPence(text) = None THEN state
                      ELSE updateBandPrice(state, b.id, unit, typedPence(text)[1])
          /\ last' = [op |-> "blurBandPrice", bandId |-> b.id, unit |-> unit, text |-> text]
    /\ UNCHANGED <<build, engineVars, rendered, basket, lastAddKey, cashPence, adminOpen, pinEntry, authed>>

\* onBlur of a price field of an individually priced product
BlurOverridePrice ==
    /\ adminOpen /\ authed
    /\ \E p \in {q \in Range(state.products) : q.pricesPence # None /\ q.units # None} :
          \E unit \in Range(p.units[1]) : \E text \in TypedPrices :
             /\ state' = IF typedPence(text) = None THEN state
                         ELSE updateOverridePrice(state, p.id, unit, typedPence(text)[1])
             /\ last' = [op |-> "blurOverridePrice", productId |-> p.id, unit |-> unit,
                         text |-> text]
    /\ UNCHANGED <<build, engineVars, rendered, basket, lastAddKey, cashPence, adminOpen, pinEntry, authed>>

NextEdit == OpenAdmin \/ CloseAdmin \/ BlurBandPrice \/ BlurOverridePrice \/ AddToBasket

SpecEdit == InitEdit /\ [][NextEdit]_vars

\* the price mappings of the bands and of the individually priced products
PriceMappings(s) ==
    {s.bands[i].pricesPence : i \in 1..Len(s.bands)}
        \cup {p.pricesPence[1] :
                 p \in {q \in Range(s.products) : q.pricesPence # None /\ q.units # None}}

\* C22: from the default catalog, after any sequence of admin price edits,
\* every price of every band and of every individually priced product is a
\* non-negative integer, and so is every basket line price and the basket
\* total.
C22_PricesNonNegative ==
    /\ \A m \in PriceMappings(state) : \A u \in DOMAIN m : m[u] \in Nat
    /\ \A i \in 1..Len(basket) : basket[i].pricePence >= 0
    /\ totalPence(build, state.products, basket) >= 0

\* C23: from the default catalog, after any sequence of updateBandPrice and
\* updateOverridePrice calls, every unit in the unit list of a band or of an
\* individually priced product has an entry in its price mapping, and
\* addToBasket takes the price of a listed unit from that entry, never from
\* the fallback 0.
C23_ListedUnitsHavePrices ==
    /\ [](/\ \A i \in 1..Len(state.bands) :
                Range(state.bands[i].units) \subseteq DOMAIN state.bands[i].pricesPence
          /\ \A p \in Range(state.products) :
                (p.pricesPence # None /\ p.units # None)
                   => Range(p.units[1]) \subseteq DOMAIN p.pricesPence[1])
    /\ [][ last'.op = "addToBasket"
             => \A p \in Range(state.products) :
                   p.id = last'.productId
                      => LET r == resolveUnitsAndPrices(state.bands, p)
                         IN  /\ last'.unit \in DOMAIN r.pricesPence
                             /\ last'.pricePence = r.pricesPence[last'.unit]
         ]_vars

\* after an edit of the Single price, a Double was added at the band's
\* untouched Double price
C23_Witness_OtherUnitStillPriced ==
    /\ last.op = "addToBasket" /\ last.productId = "p-gin1" /\ last.unit = "Double"
    /\ last.pricePence = 850
    /\ state.bands[1].pricesPence["Single"] = 800

----------------------------------------------------------------------------
(* The deal engine: when a deal is described *)

\* C24: for every quantity >= 1, bestLineTotalWithDeals returns a deal
\* description exactly when the returned total is strictly below unit price
\* times quantity; the described deal applies at least once and its bundle
\* price is below trigger times unit price, so a deal whose trigger exceeds
\* the quantity, or whose bundle price is at least trigger times unit price,
\* is never the one applied.
C24_NoteIffBelowBaseline ==
    (Returned /\ args.qty >= 1)
        => /\ ret.dealNote # None <=> ret.totalPence < args.unitPricePence * args.qty
           /\ ret.dealNote # None
                 => LET n == ParseNote(ret.dealNote[1])
                    IN  /\ n[3] >= 1
                        /\ n[1] <= args.qty
                        /\ n[2] < n[1] * args.unitPricePence

\* a list with a deal out of reach of the quantity and a deal that applies
C24_Witness_OneOutOfReachOneApplied ==
    /\ Returned /\ args.qty >= 1
    /\ Len(DealList) = 2 /\ AllWellFormed
    /\ DealList[1].qty.v > args.qty
    /\ ret.dealNote # None
    /\ ParseNote(ret.dealNote[1])[1] = DealList[2].qty.v

----------------------------------------------------------------------------
(* The till: the basket total *)

\* the Exact button: setCashPence(totalPence)
ExactCash ==
    /\ cashPence' = totalPence(build, state.products, basket)
    /\ last' = [op |-> "exactCash"]
    /\ UNCHANGED <<build, state, engineVars, rendered, basket, lastAddKey, adminOpen, pinEntry, authed>>

NextTotal ==
    \/ AddToBasket \/ ExactCash \/ OpenAdmin \/ BlurOverridePrice \/ ImportJson

SpecTotal == Init /\ [][NextTotal]_vars

\* the deals that the current catalog holds for the product of a line; none
\* when the catalog has no such product
DealsFor(line) ==
    LET ps == {p \in Range(state.products) : p.id = line.productId}
    IN  IF ps = {} THEN None ELSE (CHOOSE p \in ps : TRUE).deals

RECURSIVE SumOver(_, _)
SumOver(f, S) ==
    IF S = {} THEN 0 ELSE LET x == CHOOSE y \in S : TRUE IN f[x] + SumOver(f, S \ {x})

\* the triggers of the well-formed deals of a list of deals
Triggers(deals) ==
    IF deals = None THEN {}
    ELSE {deals[1][i].qty.v : i \in {j \in 1..Len(deals[1]) : WellFormed(deals[1][j])}}

\* C25: the basket total is the sum, over the lines, of
\* bestLineTotalWithDeals on the line's own quantity and snapshot price with
\* the deals its product has in the current catalog -- none when the product
\* is gone, which gives the baseline; a line whose own quantity is below
\* every trigger gets no deal, whatever other lines hold of the same product
\* and unit.
C25_TotalIsSumOfLineTotals ==
    [][ last'.op = "exactCash"
          => /\ cashPence' =
                   SumOver([i \in 1..Len(basket) |->
                               bestLineTotalWithDeals(build, basket[i].pricePence, basket[i].qty,
                                                      DealsFor(basket[i])).totalPence],
                           1..Len(basket))
             /\ (\A i \in 1..Len(basket) : \A t \in Triggers(DealsFor(basket[i])) :
                    basket[i].qty < t)
                   => cashPence' =
                         SumOver([i \in 1..Len(basket) |-> basket[i].pricePence * basket[i].qty],
                                 1..Len(basket))
      ]_vars

\* the total was taken of two lines of the same product and unit, one of
\* each price, whose joint quantity reaches the trigger of the product's deal
C25_Witness_TwoLinesOneProduct ==
    /\ last.op = "exactCash"
    /\ Len(basket) = 2
    /\ basket[1].productId = "p-cocktail" /\ basket[2].productId = "p-cocktail"
    /\ basket[1].pricePence = 700 /\ basket[2].pricePence = 800
    /\ DealsFor(basket[1]) # None
    /\ cashPence = 1500

----------------------------------------------------------------------------
(* The till: undo *)

\* C26: undo run directly after an addToBasket gives back the basket the add
\* started from (a created line disappears, a merged line drops back by 1);
\* undo with the last-add marker unset, or naming a line that is no longer
\* in the basket, leaves the basket as it is.
C26_UndoRevertsLastAdd ==
    [][ /\ last'.op = "addToBasket"
            => /\ lastAddKey' # None /\ Len(basket') > 0
               /\ undoLastAdd(basket', lastAddKey') = basket
        /\ (last'.op = "undoLastAdd" /\ last.op = "addToBasket")
            => \E i \in At(basket, lastAddKey[1]) :
                  IF basket[i].qty = 1 THEN basket' = Without(basket, i)
                  ELSE basket' = [basket EXCEPT ![i].qty = @ - 1]
        /\ (last'.op = "undoLastAdd" /\ (lastAddKey = None \/ At(basket, lastAddKey[1]) = {}))
            => basket' = basket
      ]_vars

\* undo took one unit off the last-added line, which stays in the basket
\* with quantity 1
C26_Witness_UndoAfterMerge ==
    /\ last.op = "undoLastAdd" /\ last.key # None
    /\ \E i \in At(basket, last.key[1]) : basket[i].qty = 1
(***************************************************************************)
(* The till: handlers that run before the component re-renders            *)
(***************************************************************************)

\* handler calls that may run against one render
MaxStale == 2

\* what the handlers of the render on screen close over: `basket` and
\* `lastAddKey` as of that render, and how many handlers it has run
Seen ==
    IF rendered = None
    THEN [basket |-> basket, lastAddKey |-> lastAddKey, calls |-> 0]
    ELSE rendered[1]

AfterCall == Some([Seen EXCEPT !.calls = @ + 1])

\* a product button pressed while the render on screen is still the one in
\* Seen: findIndex and `next` read the closed-over basket, setBasket(next)
\* replaces the queued state, setBasket((b) => [...b, line]) extends it
AddToBasketSameRender ==
    /\ Seen.calls < MaxStale
    /\ TotalQty(basket) < MaxBasketQty
    /\ \E product \in Range(state.products) :
          \E unit \in Range(resolveUnitsAndPrices(state.bands, product).units) :
             LET r == addToBasket(state.bands, Seen.basket, basket, lastAddKey, product, unit)
             IN  /\ basket' = r.basket
                 /\ lastAddKey' = r.lastAddKey
                 /\ last' = [op |-> "addToBasket", productId |-> product.id, unit |-> unit,
                             pricePence |->
                                priceOf(resolveUnitsAndPrices(state.bands, product).pricesPence, unit)]
    /\ rendered' = AfterCall
    /\ UNCHANGED <<build, state, engineVars, cashPence, adminOpen, pinEntry, authed>>

\* the + button of a line of the render on screen; the updater function
\* receives the queued basket
IncQtySameRender ==
    /\ Seen.calls < MaxStale
    /\ TotalQty(basket) < MaxBasketQty
    /\ \E key \in Keys(Seen.basket) :
          /\ basket' = incQty(basket, key)
          /\ last' = [op |-> "incQty", key |-> key]
    /\ rendered' = AfterCall
    /\ UNCHANGED <<build, state, engineVars, lastAddKey, cashPence, adminOpen, pinEntry, authed>>

\* the - button of a line of the render on screen
DecQtySameRender ==
    /\ Seen.calls < MaxStale
    /\ \E key \in Keys(Seen.basket) :
          /\ basket' = decQty(basket, key)
          /\ last' = [op |-> "decQty", key |-> key]
    /\ rendered' = AfterCall
    /\ UNCHANGED <<build, state, engineVars, lastAddKey, cashPence, adminOpen, pinEntry, authed>>

\* the component re-renders with the queued state: the next handlers close
\* over the current basket
Render ==
    /\ rendered # None
    /\ rendered' = None
    /\ last' = [op |-> "render"]
    /\ UNCHANGED <<build, state, engineVars, basket, lastAddKey, cashPence, adminOpen,
                   pinEntry, authed>>

NextStale == AddToBasketSameRender \/ IncQtySameRender \/ DecQtySameRender \/ Render

SpecStale == Init /\ [][NextStale]_vars

\* the units of a (productId, unit, pricePence) triple in a basket
QtyOfTriple(b, productId, unit, pricePence) ==
    SumOver([i \in 1..Len(b) |-> b[i].qty], WithTriple(b, productId, unit, pricePence))

\* the quantity of the line with a key, 0 when there is none
QtyOfKey(b, key) == SumOver([i \in 1..Len(b) |-> b[i].qty], At(b, key))

----------------------------------------------------------------------------
(* The till: who may edit prices *)

\* C28: authed holds only while the panel is open; closeAdmin leaves it
\* false; openAdmin with pinEnabled set leaves it false, and it turns true
\* only in openAdmin with pinEnabled clear or in a tryPin whose entry is the
\* stored PIN; updateBandPrice and updateOverridePrice run only from a state
\* with the panel open and authed.
C28_EditsOnlyWhenAuthed ==
    /\ [](authed => adminOpen)
    /\ [][ /\ last'.op = "closeAdmin" => (~authed' /\ ~adminOpen')
           /\ (last'.op = "openAdmin" /\ state.pinEnabled) => (adminOpen' /\ ~authed')
           /\ (~authed /\ authed')
               => \/ last'.op = "openAdmin" /\ ~state.pinEnabled
                  \/ last'.op = "tryPin" /\ adminOpen /\ pinEntry = state.pin
           /\ last'.op \in {"updateBandPrice", "updateOverridePrice"}
               => (adminOpen /\ authed /\ adminOpen' /\ authed')
         ]_vars

\* a panel opened with the PIN switched on was unlocked by entering the
\* stored PIN, and a price was edited after that
C28_Witness_UnlockedThenEdited ==
    /\ last.op = "updateBandPrice"
    /\ state.pinEnabled /\ adminOpen /\ authed
    /\ pinEntry = state.pin /\ pinEntry # ""
----------------------------------------------------------------------------
(* The till: what a band price edit touches *)

\* the default catalog with two of its bands, a product priced by each and
\* the individually priced cocktail
DefaultWithTwoBands ==
    [DEFAULT_STATE EXCEPT
        !.bands = <<[id |-> "band-premium", units |-> <<"Single", "Double">>,
                     pricesPence |-> SpiritPrices(450, 850)],
                    [id |-> "band-topshelf", units |-> <<"Single", "Double">>,
                     pricesPence |-> SpiritPrices(550, 1050)]>>,
        !.products = <<DEFAULT_STATE.products[1],
                       [id |-> "p-vod2", name |-> "Grey Goose",
                        bandId |-> Some("band-topshelf"),
                        units |-> None, pricesPence |-> None, deals |-> None],
                       DEFAULT_STATE.products[2]>>]

InitBands ==
    /\ build = "App.jsx"
    /\ state = DefaultWithTwoBands
    /\ pc = "idle" /\ args = NoRet /\ ret = NoRet
    /\ TillInit

NextBands == OpenAdmin \/ UpdateBandPrice \/ AddToBasket

SpecBands == InitBands /\ [][NextBands]_vars

\* C29: updateBandPrice(bandId, unit, p) sets the price of that unit in that
\* band to p and leaves alone every other band, the id, unit list and other
\* prices of the band, the products, the PIN settings, what the resolver
\* gives for individually priced products and for products of other bands,
\* and the basket with every line total.
C29_BandEditTouchesOneUnit ==
    [][ last'.op = "updateBandPrice"
          => /\ Len(state'.bands) = Len(state.bands)
             /\ \A i \in 1..Len(state.bands) :
                   IF state.bands[i].id # last'.bandId
                   THEN state'.bands[i] = state.bands[i]
                   ELSE /\ state'.bands[i].id = state.bands[i].id
                        /\ state'.bands[i].units = state.bands[i].units
                        /\ DOMAIN state'.bands[i].pricesPence
                             = DOMAIN state.bands[i].pricesPence \cup {last'.unit}
                        /\ state'.bands[i].pricesPence[last'.unit] = last'.pence
                        /\ \A u \in DOMAIN state.bands[i].pricesPence \ {last'.unit} :
                              state'.bands[i].pricesPence[u] = state.bands[i].pricesPence[u]
             /\ state'.products = state.products
             /\ state'.pinEnabled = state.pinEnabled /\ state'.pin = state.pin
             /\ \A p \in Range(state.products) :
                   (HasOwnPricing(p) \/ p.bandId # Some(last'.bandId))
                      => resolveUnitsAndPrices(state'.bands, p)
                           = resolveUnitsAndPrices(state.bands, p)
             /\ basket' = basket
             /\ \A i \in 1..Len(basket) :
                   lineTotal(build, state'.products, basket'[i])
                     = lineTotal(build, state.products, basket[i])
      ]_vars

\* the Single price of band-premium was edited while a Single of that band
\* and a Single of the other band were in the basket; the Double of the
\* band, the other band and both lines are as before
C29_Witness_SingleOfOneBandEdited ==
    /\ last.op = "updateBandPrice" /\ last.bandId = "band-premium" /\ last.unit = "Single"
    /\ state.bands[1].pricesPence = SpiritPrices(0, 850)
    /\ state.bands[2].pricesPence = SpiritPrices(550, 1050)
    /\ Len(basket) = 2
    /\ basket[1].productId = "p-gin1" /\ basket[1].unit = "Single" /\ basket[1].pricePence = 450
    /\ basket[2].productId = "p-vod2" /\ basket[2].unit = "Single" /\ basket[2].pricePence = 550
----------------------------------------------------------------------------
(* The till: what the line buttons touch *)

====
